---- MODULE Spec2Model ----
(***************************************************************************)
(* A model of data-universe's custom scraping code:                        *)
(*   - TwitterCustomScraper.validate, its HTML parser and _validate_tweet  *)
(*     (src/scraping/x/twitter_custom_scraper.py),                         *)
(*   - generate_scraping_config (src/custom_crawler.py),                   *)
(*   - ScraperProvider.get (src/scraping/provider.py),                     *)
(*   - the bootstrap under __main__ (src/custom_crawler.py).               *)
(* Python strings that the code slices or searches are sequences of        *)
(* one-character strings; an Optional value is <<>> (None) or <<v>>.       *)
(***************************************************************************)
EXTENDS Integers, Sequences, FiniteSets, TLC

VARIABLES
    \* ---- TwitterCustomScraper.validate ----
    entities,       \* the argument of validate: a sequence of DataEntity
    pc,             \* position of the call
    idx,            \* 1-based position of the for loop over entities
    html,           \* the local `html`: None or the fetched markup
    tweet,          \* the local `tweet`: None or the parsed XContent
    results,        \* the local list `results`
    steps,          \* history: per claim, the capabilities invoked for it
    \* ---- generate_scraping_config ----
    sub_reddits,    \* argument: the flat list of labels
    num_steps,      \* argument
    max_entities,   \* argument
    cascade_seconds, \* argument
    gpc,            \* "ready" before the call, "done" after
    config,         \* None or the returned dictionary
    \* ---- ScraperProvider ----
    factories,      \* self.factories: scraper id -> factory
    reddit_config,  \* self.reddit_config: None or a dict
    calls,          \* number of get calls made so far
    got,            \* None or the last get call: its argument and outcome
    \* ---- __main__ of custom_crawler.py ----
    KEYS,           \* the list load_keys returned
    SUB_REDDITS,    \* the list load_sub_reddits returned
    mpc,            \* position of the bootstrap
    key_i,          \* the loop variable i: None while unbound
    coordinators    \* the coordinators started, in order

vars == <<entities, pc, idx, html, tweet, results, steps,
          sub_reddits, num_steps, max_entities, cascade_seconds, gpc, config,
          factories, reddit_config, calls, got,
          KEYS, SUB_REDDITS, mpc, key_i, coordinators>>

validateVars == <<entities, pc, idx, html, tweet, results, steps>>
configVars == <<sub_reddits, num_steps, max_entities, cascade_seconds, gpc, config>>
providerVars == <<factories, reddit_config, calls, got>>
mainVars == <<KEYS, SUB_REDDITS, mpc, key_i, coordinators>>

\* ------------------------------------------------------------------ bounds
MaxBatch == 2       \* longest batch of claims handed to validate
MaxTextLen == 2     \* longest text stored in a claim
MaxLabels == 10     \* longest label list handed to generate_scraping_config
MaxSteps == 5       \* largest num_steps
MaxCalls == 2       \* get calls made on one provider
MaxKeys == 3        \* longest list of credential keys
MaxSubReddits == 10 \* longest list of labels the bootstrap loads

\* ------------------------------------------------------------------ Optional
None == <<>>
Some(v) == <<v>>
IsNone(o) == o = <<>>
The(o) == o[1]

Min(a, b) == IF a <= b THEN a ELSE b

\* ------------------------------------------------------------------ strings
Ellipsis == "..."          \* the single character U+2026
Letters == {"a", "b"}
TextChars == Letters \cup {Ellipsis}

SeqsUpTo(S, n) == UNION {[1..k -> S] : k \in 0..n}

\* s[i:j] of Python for 0 <= i, j (0-based, end exclusive, clamped)
Slice(s, i, j) == SubSeq(s, i + 1, Min(j, Len(s)))

\* s.endswith(c) for a one-character c
EndsWith(s, c) == Len(s) > 0 /\ s[Len(s)] = c

\* s[:-1]
DropLast(s) == SubSeq(s, 1, Len(s) - 1)

\* s[1:]
DropFirst(s) == SubSeq(s, 2, Len(s))

\* `a in b` on Python strings: a occurs in b as a contiguous substring
IsSubstring(a, b) ==
    \E k \in 0..(Len(b) - Len(a)) : SubSeq(b, k + 1, k + Len(a)) = a

\* a is a prefix of b, and shorter than b
IsStrictPrefix(a, b) == Len(a) < Len(b) /\ SubSeq(b, 1, Len(a)) = a

\* str.lower on the characters the model uses
LowerChar(c) == CASE c = "F" -> "f" [] c = "G" -> "g" [] OTHER -> c
Lower(s) == [i \in 1..Len(s) |-> LowerChar(s[i])]

\* ------------------------------------------------------------------ URIs
GoodUriA == "https://twitter.com/a/status/1"
GoodUriB == "https://twitter.com/b/status/2"
BadUri == "https://twitter.com/a/status/abc"
Uris == {GoodUriA, GoodUriB, BadUri}

\* scraping.x.utils.is_valid_twitter_url
is_valid_twitter_url(uri) == uri \in {GoodUriA, GoodUriB}

\* scraping.x.utils.get_user_from_twitter_url
get_user_from_twitter_url(uri) ==
    CASE uri = GoodUriA -> Some("@a")
      [] uri = GoodUriB -> Some("@b")
      [] OTHER -> None

\* ------------------------------------------------------------------ time
\* a datetime: minute, second, microsecond (the date and hour are fixed)
DateTime(m, s, u) == [minute |-> m, second |-> s, microsecond |-> u]

\* datetime.replace(second=0).replace(microsecond=0)
TruncateToMinute(t) == [t EXCEPT !.second = 0, !.microsecond = 0]

\* the datetimes claims carry: the minute the pages show, and one second later
ClaimTimes == {DateTime(1, 0, 0), DateTime(1, 1, 0)}

\* ------------------------------------------------------------------ markup
\* A fetched tweet's inner html, as far as the parser reads it:
\*   tweetText: None or the span/img elements inside div[data-testid=tweetText]
\*   time:      None or the <time> element's datetime attribute
\*   anchors:   the <a href=...ashtag_click...> anchors in document order
Span(t) == [alt |-> None, text |-> t]
Img(a) == [alt |-> Some(a), text |-> <<>>]

ElementLists == { <<Span(<<"a">>), Img(<<"b">>)>>, <<Span(<<"a">>)>> }

\* the datetime attribute: whether it has the format %Y-%m-%dT%H:%M:%S.%fZ, and its value
TimeAttr(ok, m, s, u) == [wellformed |-> ok, value |-> DateTime(m, s, u)]

Anchor(marker, body) == [marker |-> marker, body |-> body]
AnchorLists == { <<>>,
                 <<Anchor("#", <<"F", "o">>)>>,
                 <<Anchor("$", <<"F", "o">>), Anchor("#", <<"g">>)>> }

Html(tt, tm, an) == [tweetText |-> tt, time |-> tm, anchors |-> an]

GoodHtmls == { Html(Some(el), Some(tm), an) :
                 el \in ElementLists,
                 tm \in {TimeAttr(TRUE, 1, 0, 0), TimeAttr(TRUE, 1, 1, 1)},
                 an \in AnchorLists }

BrokenHtmls == { Html(None, Some(TimeAttr(TRUE, 1, 0, 0)), <<>>),
                 Html(Some(<<Span(<<"a">>)>>), None, <<>>),
                 Html(Some(<<Span(<<"a">>)>>), Some(TimeAttr(FALSE, 1, 0, 0)), <<>>) }

Htmls == GoodHtmls \cup BrokenHtmls

\* tag.text of an anchor (line 140)
AnchorText(a) == <<a.marker>> \o a.body

\* ------------------------------------------------------------------ content
\* scraping.x.model.XContent
XContent(u, t, url, ts, tags) ==
    [username |-> u, text |-> t, url |-> url, timestamp |-> ts, tweet_hashtags |-> tags]

\* The wire format of DataEntity.content: the fields in the fixed key order
\* username, text, url, timestamp, tweet_hashtags; <<>> stands for bytes
\* that are no such JSON document.
EncodeContent(c) == <<c.username, c.text, c.url, c.timestamp, c.tweet_hashtags>>
GarbageBytes == <<>>

\* len(content_bytes), counted in characters of text and number of tags
ByteSize(b) == IF Len(b) = 5 THEN Len(b[2]) + Len(b[5]) ELSE 0

\* common.data.DataEntity
DataEntity(uri, dt, source, label, content, size) ==
    [uri |-> uri, datetime |-> dt, source |-> source, label |-> label,
     content |-> content, content_size_bytes |-> size]

\* XContent.from_data_entity: None stands for the exception it raises
from_data_entity(entity) ==
    LET b == entity.content
    IN IF Len(b) = 5 THEN Some(XContent(b[1], b[2], b[3], b[4], b[5])) ELSE None

\* XContent.to_data_entity: the label is the first tag, lower-cased
to_data_entity(c) ==
    DataEntity(c.url, c.timestamp, "X",
               IF c.tweet_hashtags = <<>> THEN None ELSE Some(Lower(c.tweet_hashtags[1])),
               EncodeContent(c), ByteSize(EncodeContent(c)))

\* DataEntity.are_non_content_fields_equal
are_non_content_fields_equal(e1, e2) ==
    /\ e1.uri = e2.uri
    /\ e1.datetime = e2.datetime
    /\ e1.source = e2.source
    /\ e1.label = e2.label

\* scraping.scraper.ValidationResult
ValidationResult(ok, reason, size) ==
    [is_valid |-> ok, reason |-> reason, content_size_bytes_validated |-> size]

ReasonInvalidUri == "Invalid URI."
ReasonFetchFailed == "Failed to get Tweet. This can happen if the URI is invalid, or playwright is having an issue."
ReasonNotFound == "Tweet not found or is invalid."
ReasonDecode == "Failed to decode data entity"
ReasonMismatch == "Tweet does not match"
ReasonFields == "The DataEntity fields are incorrect based on the tweet."
ReasonGood == "Good job, you honest miner!"

\* ------------------------------------------------------------------ parser
\* lines 110-121: concatenate, per span/img element, its alt text (if any) and its text
RECURSIVE TweetText(_)
TweetText(elements) ==
    IF elements = <<>> THEN <<>>
    ELSE LET e == Head(elements)
         IN (IF IsNone(e.alt) THEN <<>> ELSE The(e.alt)) \o e.text \o TweetText(Tail(elements))

\* lines 139-144: the text of every tag anchor, in document order
Hashtags(h) == [i \in 1..Len(h.anchors) |-> AnchorText(h.anchors[i])]

\* a mutant of line 147: the leading character is kept as it is
CorrectedHashtagsKeepMarker(hashtags) ==
    [i \in 1..Len(hashtags) |-> hashtags[i]]

\* line 147
CorrectedHashtags(hashtags) ==
    [i \in 1..Len(hashtags) |-> <<"#">> \o DropFirst(hashtags[i])]

\* _best_effort_parse_tweet_from_html: None when the user cannot be read from
\* the url or when anything raises inside the try block
ParseTweet(h, url) ==
    LET username == get_user_from_twitter_url(url)
    IN IF IsNone(username) THEN None
       ELSE IF IsNone(h.tweetText) THEN None          \* None.find_all raises
       ELSE IF IsNone(h.time) THEN None               \* None["datetime"] raises
       ELSE IF ~The(h.time).wellformed THEN None      \* strptime raises
       ELSE Some(XContent(The(username),
                          TweetText(The(h.tweetText)),
                          url,
                          TruncateToMinute(The(h.time).value),
                          CorrectedHashtags(Hashtags(h))))

\* ------------------------------------------------------------------ _validate_tweet
\* lines 181-185: the condition under which the fresh text is replaced
ElisionApplies(freshText, claimText) ==
    /\ freshText # claimText
    /\ EndsWith(claimText, Ellipsis)
    /\ IsSubstring(DropLast(claimText), freshText)

\* lines 181-189: the tweet after the elision step
AfterElision(tw, toVerify) ==
    IF ElisionApplies(tw.text, toVerify.text)
    THEN [tw EXCEPT !.text = toVerify.text]
    ELSE tw

\* a mutant of lines 201-208: the label is left out of the comparison
FieldsMatchIgnoringLabel(tw, entity) ==
    LET d == to_data_entity(tw)
    IN d.uri = entity.uri /\ d.datetime = entity.datetime /\ d.source = entity.source

\* lines 201-208: the final check of the non-content fields
FieldsMatch(tw, entity) == are_non_content_fields_equal(to_data_entity(tw), entity)

\* a mutant of _validate_tweet: the non-content fields are compared before the content
ValidateTweetMetadataFirst(tw, entity) ==
    LET decoded == from_data_entity(entity)
        size == entity.content_size_bytes
    IN IF IsNone(decoded)
       THEN [tweet |-> tw, result |-> ValidationResult(FALSE, ReasonDecode, size)]
       ELSE LET tw2 == AfterElision(tw, The(decoded))
            IN [tweet |-> tw2,
                result |->
                  IF ~are_non_content_fields_equal(to_data_entity(tw2), entity)
                  THEN ValidationResult(FALSE, ReasonFields, size)
                  ELSE IF The(decoded) # tw2
                  THEN ValidationResult(FALSE, ReasonMismatch, size)
                  ELSE ValidationResult(TRUE, ReasonGood, size)]

\* _validate_tweet: the verdict, and the tweet as the call leaves it (the
\* elision step assigns to tweet.text). to_data_entity is total on a parsed
\* tweet, so the except branch of lines 209-219 is never taken.
ValidateTweet(tw, entity) ==
    LET decoded == from_data_entity(entity)
        size == entity.content_size_bytes
    IN IF IsNone(decoded)
       THEN [tweet |-> tw, result |-> ValidationResult(FALSE, ReasonDecode, size)]
       ELSE LET tw2 == AfterElision(tw, The(decoded))
            IN [tweet |-> tw2,
                result |->
                  IF The(decoded) # tw2
                  THEN ValidationResult(FALSE, ReasonMismatch, size)
                  ELSE IF ~FieldsMatch(tw2, entity)
                  THEN ValidationResult(FALSE, ReasonFields, size)
                  ELSE ValidationResult(TRUE, ReasonGood, size)]

\* ------------------------------------------------------------------ claims handed to validate
TagF == <<"#", "F", "o">>
TagG == <<"#", "g">>
ClaimTexts == SeqsUpTo(TextChars, MaxTextLen)
ClaimTagLists == { <<>>, <<TagF>>, <<TagF, TagG>>, <<TagG, TagF>> }
ClaimLabels == { None, Some(Lower(TagF)), Some(Lower(TagG)) }
ClaimSources == { "X", "REDDIT" }

ClaimContents ==
    {GarbageBytes} \cup
    { EncodeContent(XContent(u, t, url, ts, tags)) :
        u \in {"@a", "@b"}, t \in ClaimTexts, url \in {GoodUriA, GoodUriB},
        ts \in ClaimTimes, tags \in ClaimTagLists }

\* every claim over the small field domains, its declared size the size of its bytes
Claims ==
    { DataEntity(uri, dt, src, label, content, ByteSize(content)) :
        uri \in {GoodUriA, BadUri}, dt \in ClaimTimes, src \in ClaimSources,
        label \in ClaimLabels, content \in ClaimContents }

\* the claim an honest miner stores for the markup h fetched from uri
HonestClaim(uri, h) == to_data_entity(The(ParseTweet(h, uri)))

PageA == Html(Some(<<Span(<<"a">>), Img(<<"b">>)>>), Some(TimeAttr(TRUE, 1, 1, 1)),
              <<Anchor("$", <<"F", "o">>), Anchor("#", <<"g">>)>>)
PageB == Html(Some(<<Span(<<"a">>)>>), Some(TimeAttr(TRUE, 1, 0, 0)), <<>>)

\* the claims of a batch: honest ones and the mutations test_validate makes
BatchClaims ==
    LET a == HonestClaim(GoodUriA, PageA)
        b == HonestClaim(GoodUriB, PageB)
    IN { a, b,
         [a EXCEPT !.uri = BadUri],
         [a EXCEPT !.content = GarbageBytes],
         [a EXCEPT !.datetime = DateTime(1, 1, 0)],
         [b EXCEPT !.label = Some(Lower(TagG))],
         [b EXCEPT !.content_size_bytes = @ + 1] }

Batches == UNION { [1..n -> BatchClaims] : n \in 0..MaxBatch }

\* ------------------------------------------------------------------ validate
StepNames == {"fetch_ok", "fetch_fail", "parse", "compare"}

InitValidateLocals ==
    /\ pc = "call"
    /\ idx = 0
    /\ html = None
    /\ tweet = None
    /\ results = <<>>
    /\ steps = [i \in 1..Len(entities) |-> <<>>]

Entity == entities[idx]
InLoop == pc = "loop" /\ idx <= Len(entities)
Log(name) == [steps EXCEPT ![idx] = Append(@, name)]

\* list.append(object, **kwargs): a Python list's append takes exactly one
\* positional argument and no keyword argument; anything else raises TypeError
ListAppend(list, args, kwargs) ==
    IF Len(args) = 1 /\ kwargs = {}
    THEN [raised |-> FALSE, list |-> Append(list, args[1])]
    ELSE [raised |-> TRUE, list |-> list]

\* lines 31-34: results.append(ValidationResult(is_valid=False, reason="Invalid URI."),
\*                             content_size_bytes_validated=entity.content_size_bytes)
AppendInvalidUri(list, entity) ==
    ListAppend(list,
               <<ValidationResult(FALSE, ReasonInvalidUri, 0)>>,
               {<<"content_size_bytes_validated", entity.content_size_bytes>>})

\* lines 21-22
ValidateEmpty ==
    /\ pc = "call"
    /\ entities = <<>>
    /\ pc' = "returned"
    /\ UNCHANGED <<entities, idx, html, tweet, results, steps>>
    /\ UNCHANGED <<configVars, providerVars, mainVars>>

\* lines 25, 28: results = [] and the loop is entered
ValidateBegin ==
    /\ pc = "call"
    /\ entities # <<>>
    /\ results' = <<>>
    /\ idx' = 1
    /\ pc' = "loop"
    /\ UNCHANGED <<entities, html, tweet, steps>>
    /\ UNCHANGED <<configVars, providerVars, mainVars>>

\* lines 30-35: the URI is not a Twitter URL
RejectUri ==
    /\ InLoop
    /\ ~is_valid_twitter_url(Entity.uri)
    /\ LET r == AppendInvalidUri(results, Entity)
       IN /\ results' = r.list
          /\ IF r.raised
             THEN pc' = "raised" /\ idx' = idx
             ELSE pc' = "loop" /\ idx' = idx + 1
    /\ UNCHANGED <<entities, html, tweet, steps>>
    /\ UNCHANGED <<configVars, providerVars, mainVars>>

\* lines 30, 37: the URI is a Twitter URL; html = None
AcceptUri ==
    /\ InLoop
    /\ is_valid_twitter_url(Entity.uri)
    /\ html' = None
    /\ pc' = "fetch"
    /\ UNCHANGED <<entities, idx, tweet, results, steps>>
    /\ UNCHANGED <<configVars, providerVars, mainVars>>

\* lines 38-47: the page is fetched
FetchOk ==
    /\ pc = "fetch"
    /\ \E h \in Htmls : html' = Some(h)
    /\ steps' = Log("fetch_ok")
    /\ pc' = "parse"
    /\ UNCHANGED <<entities, idx, tweet, results>>
    /\ UNCHANGED <<configVars, providerVars, mainVars>>

\* a mutant of lines 48-63: a failed fetch is tried again
FetchFailRetry ==
    /\ pc = "fetch"
    /\ steps' = Log("fetch_fail")
    /\ pc' = "fetch"
    /\ UNCHANGED <<entities, idx, html, tweet, results>>
    /\ UNCHANGED <<configVars, providerVars, mainVars>>

\* lines 48-63: anything raised while fetching
FetchFail ==
    /\ pc = "fetch"
    /\ steps' = Log("fetch_fail")
    /\ results' = Append(results,
                         ValidationResult(FALSE, ReasonFetchFailed, Entity.content_size_bytes))
    /\ idx' = idx + 1
    /\ pc' = "loop"
    /\ UNCHANGED <<entities, html, tweet>>
    /\ UNCHANGED <<configVars, providerVars, mainVars>>

\* lines 66-75: the parser finds no tweet
ParseNotFound ==
    /\ pc = "parse"
    /\ ParseTweet(The(html), Entity.uri) = None
    /\ tweet' = None
    /\ steps' = Log("parse")
    /\ results' = Append(results,
                         ValidationResult(FALSE, ReasonNotFound, Entity.content_size_bytes))
    /\ idx' = idx + 1
    /\ pc' = "loop"
    /\ UNCHANGED <<entities, html>>
    /\ UNCHANGED <<configVars, providerVars, mainVars>>

\* lines 66-67: the parser finds the tweet
ParseFound ==
    /\ pc = "parse"
    /\ ParseTweet(The(html), Entity.uri) # None
    /\ tweet' = ParseTweet(The(html), Entity.uri)
    /\ steps' = Log("parse")
    /\ pc' = "validate"
    /\ UNCHANGED <<entities, idx, html, results>>
    /\ UNCHANGED <<configVars, providerVars, mainVars>>

\* line 78
ValidateFound ==
    /\ pc = "validate"
    /\ LET v == ValidateTweet(The(tweet), Entity)
       IN /\ tweet' = Some(v.tweet)
          /\ results' = Append(results, v.result)
    /\ steps' = Log("compare")
    /\ idx' = idx + 1
    /\ pc' = "loop"
    /\ UNCHANGED <<entities, html>>
    /\ UNCHANGED <<configVars, providerVars, mainVars>>

\* line 80
ValidateReturn ==
    /\ pc = "loop"
    /\ idx > Len(entities)
    /\ pc' = "returned"
    /\ UNCHANGED <<entities, idx, html, tweet, results, steps>>
    /\ UNCHANGED <<configVars, providerVars, mainVars>>

Next ==
    \/ ValidateEmpty
    \/ ValidateBegin
    \/ RejectUri
    \/ AcceptUri
    \/ FetchOk
    \/ FetchFail
    \/ ParseNotFound
    \/ ParseFound
    \/ ValidateFound
    \/ ValidateReturn

\* the other components, idle
IdleConfig ==
    /\ sub_reddits = <<>>
    /\ num_steps = 1
    /\ max_entities = 100
    /\ cascade_seconds = 30
    /\ gpc = "idle"
    /\ config = None

IdleProvider ==
    /\ factories = <<>>
    /\ reddit_config = None
    /\ calls = 0
    /\ got = None

IdleMain ==
    /\ KEYS = <<>>
    /\ SUB_REDDITS = <<>>
    /\ mpc = "idle"
    /\ key_i = None
    /\ coordinators = <<>>

IdleValidate ==
    /\ entities = <<>>
    /\ pc = "idle"
    /\ idx = 0
    /\ html = None
    /\ tweet = None
    /\ results = <<>>
    /\ steps = <<>>

\* validate called on a batch of claims
Init ==
    /\ entities \in Batches
    /\ InitValidateLocals
    /\ IdleConfig
    /\ IdleProvider
    /\ IdleMain

Spec == Init /\ [][Next]_vars

\* validate called on at most one claim, as test_validate calls it for its bad entities
InitClaim ==
    /\ entities \in {<<>>} \cup { <<e>> : e \in Claims }
    /\ InitValidateLocals
    /\ IdleConfig
    /\ IdleProvider
    /\ IdleMain

SpecClaim == InitClaim /\ [][Next]_vars

\* ------------------------------------------------------------------ claims about validate
HasStep(i, name) == \E k \in 1..Len(steps[i]) : steps[i][k] = name
Fetches(i) == Cardinality({k \in 1..Len(steps[i]) : steps[i][k] \in {"fetch_ok", "fetch_fail"}})

\* the claim judged last, whose html and tweet the locals still hold
Last == Len(results)
LastJudged == Last >= 1 /\ pc \in {"loop", "returned", "raised"}

\* C1: validate returns normally, never raising, one verdict per claim in the
\* order of the claims (verdict i carries claim i's declared size).
C1_ReturnsOneVerdictPerClaim ==
    /\ pc # "raised"
    /\ pc = "returned" =>
         /\ Len(results) = Len(entities)
         /\ \A i \in 1..Len(entities) :
              results[i].content_size_bytes_validated = entities[i].content_size_bytes

\* C2: a claim whose URI is no Twitter URL is never fetched, and once the loop
\* has dealt with it, it has an invalid verdict with the invalid-URI reason.
C2_BadUriRejectedWithoutFetch ==
    \A i \in 1..Len(entities) :
        ~is_valid_twitter_url(entities[i].uri) =>
            /\ Fetches(i) = 0
            /\ (idx > i \/ (idx = i /\ pc = "raised")) =>
                 /\ i <= Len(results)
                 /\ results[i].is_valid = FALSE
                 /\ results[i].reason = ReasonInvalidUri

\* C3: within one call each claim is fetched at most once; a claim whose fetch
\* failed has the fetch-failure verdict, was neither parsed nor compared, and
\* the loop has moved on to the claims after it.
C3_FetchOnceAndFailureIsAVerdict ==
    \A i \in 1..Len(entities) :
        /\ Fetches(i) <= 1
        /\ HasStep(i, "fetch_fail") =>
             /\ steps[i] = <<"fetch_fail">>
             /\ i <= Len(results)
             /\ results[i] = ValidationResult(FALSE, ReasonFetchFailed,
                                              entities[i].content_size_bytes)
             /\ idx > i
             /\ (idx <= Len(entities) => pc # "returned")

\* a claim's fetch failed and the claim after it was fetched and judged valid
C3_Witness ==
    \E i \in 1..Len(entities) :
        /\ HasStep(i, "fetch_fail")
        /\ i + 1 <= Len(results)
        /\ HasStep(i + 1, "fetch_ok")
        /\ results[i + 1].is_valid

\* the fresh text as the comparison sees it: the claim's text where the
\* elision step replaced it
TextCompared(fresh, claimed) ==
    IF ElisionApplies(fresh.text, claimed.text) THEN claimed.text ELSE fresh.text

\* the decoded content equals the fresh content on every field
ContentAgrees(fresh, claimed) ==
    /\ claimed.username = fresh.username
    /\ claimed.text = TextCompared(fresh, claimed)
    /\ claimed.url = fresh.url
    /\ claimed.timestamp = fresh.timestamp
    /\ claimed.tweet_hashtags = fresh.tweet_hashtags

\* source, URI, label and timestamp re-derived from the fresh content equal the claim's
MetadataAgrees(fresh, e) ==
    /\ e.source = "X"
    /\ e.uri = fresh.url
    /\ e.label = (IF fresh.tweet_hashtags = <<>> THEN None
                  ELSE Some(Lower(fresh.tweet_hashtags[1])))
    /\ e.datetime = fresh.timestamp

\* claim e passed the locator, fetch, parse and decode steps with fetch outcome h
PassedToComparison(e, h) ==
    /\ is_valid_twitter_url(e.uri)
    /\ h # None
    /\ ParseTweet(The(h), e.uri) # None
    /\ from_data_entity(e) # None

ShouldBeValid(e, h) ==
    /\ PassedToComparison(e, h)
    /\ ContentAgrees(The(ParseTweet(The(h), e.uri)), The(from_data_entity(e)))
    /\ MetadataAgrees(The(ParseTweet(The(h), e.uri)), e)

C6_ElisionOnlyForStrictPrefix ==
    (LastJudged /\ PassedToComparison(entities[Last], html)) =>
        LET e == entities[Last]
            fresh == The(ParseTweet(The(html), e.uri))
            claimed == The(from_data_entity(e))
            replaced == The(tweet).text = claimed.text /\ fresh.text # claimed.text
        IN /\ replaced <=>
                /\ fresh.text # claimed.text
                /\ EndsWith(claimed.text, Ellipsis)
                /\ IsStrictPrefix(DropLast(claimed.text), fresh.text)
           /\ ( /\ EndsWith(claimed.text, Ellipsis)
                /\ IsSubstring(DropLast(claimed.text), fresh.text)
                /\ SubSeq(fresh.text, 1, Len(claimed.text) - 1) # DropLast(claimed.text) )
              => results[Last].reason = ReasonMismatch

\* C10: the parsed tweet has one tag per tag anchor, in document order, and
\* each is "#" followed by the anchor's tag body unchanged.
C10_TagsCanonicalized ==
    pc = "validate" =>
        LET anchors == The(html).anchors
            tags == The(tweet).tweet_hashtags
        IN /\ Len(tags) = Len(anchors)
           /\ \A k \in 1..Len(anchors) : tags[k] = <<"#">> \o anchors[k].body

\* a page with a cashtag and a hashtag was parsed
C10_Witness ==
    /\ pc = "validate"
    /\ Len(The(html).anchors) = 2
    /\ The(html).anchors[1].marker = "$"
    /\ The(tweet).tweet_hashtags = <<TagF, TagG>>

\* ------------------------------------------------------------------ generate_scraping_config
\* a mutant of lines 16-26: no special case for labels_per_steps = 0
LabelsToScrapeNoCollapse(labels, nsteps, maxEntities) ==
    LET labels_per_steps == Len(labels) \div nsteps
    IN [ j \in 1..nsteps |->
           [label_choices |-> Slice(labels, j - 1, (j - 1) + labels_per_steps),
            max_data_entities |-> maxEntities] ]

\* lines 16-26: the list labels_to_scrape
LabelsToScrape(labels, nsteps, maxEntities) ==
    LET labels_per_steps == Len(labels) \div nsteps
    IN IF labels_per_steps = 0
       THEN << [label_choices |-> labels, max_data_entities |-> maxEntities] >>
       ELSE [ j \in 1..nsteps |->
                [label_choices |-> Slice(labels, j - 1, (j - 1) + labels_per_steps),
                 max_data_entities |-> maxEntities] ]

\* lines 10-37: the dictionary generate_scraping_config returns
generate_scraping_config(labels, cascade, maxEntities, nsteps) ==
    [scraper_configs |->
        << [scraper_id |-> "Reddit.custom",
            cadence_seconds |-> cascade,
            labels_to_scrape |-> LabelsToScrape(labels, nsteps, maxEntities)] >>]

\* lines 10-37: one call
GenerateScrapingConfig ==
    /\ gpc = "ready"
    /\ config' = Some(generate_scraping_config(sub_reddits, cascade_seconds,
                                               max_entities, num_steps))
    /\ gpc' = "done"
    /\ UNCHANGED <<sub_reddits, num_steps, max_entities, cascade_seconds>>
    /\ UNCHANGED <<validateVars, providerVars, mainVars>>

\* the label lists: n distinct labels, named 1..n
LabelLists == { [i \in 1..n |-> i] : n \in 0..MaxLabels }

InitConfig ==
    /\ sub_reddits \in LabelLists
    /\ num_steps \in 1..MaxSteps
    /\ max_entities \in {100, 1000}
    /\ cascade_seconds \in {30, 120}
    /\ gpc = "ready"
    /\ config = None
    /\ IdleValidate
    /\ IdleProvider
    /\ IdleMain

SpecConfig == InitConfig /\ [][GenerateScrapingConfig]_vars

Groups == The(config).scraper_configs[1].labels_to_scrape
LabelSet(group) == { group.label_choices[k] : k \in 1..Len(group.label_choices) }
PerStep == Len(sub_reddits) \div num_steps

\* C7: when floor(total/steps) = k >= 1 there are exactly num_steps groups,
\* each of size k, group j (counted from 0) holding the labels at positions
\* j*k .. j*k+k-1, and no label is in two groups.
C7_ContiguousDisjointChunks ==
    (gpc = "done" /\ PerStep >= 1) =>
        /\ Len(Groups) = num_steps
        /\ \A j \in 1..Len(Groups) :
             /\ Len(Groups[j].label_choices) = PerStep
             /\ Groups[j].label_choices =
                  SubSeq(sub_reddits, (j - 1) * PerStep + 1, (j - 1) * PerStep + PerStep)
        /\ \A i, j \in 1..Len(Groups) :
             i # j => LabelSet(Groups[i]) \cap LabelSet(Groups[j]) = {}

\* C8 as stated: when floor(total/steps) = 0 there is exactly one group, it
\* holds every label, and it is not empty.
C8_SingleNonEmptyGroup ==
    (gpc = "done" /\ PerStep = 0) =>
        /\ Len(Groups) = 1
        /\ Groups[1].label_choices = sub_reddits
        /\ \A j \in 1..Len(Groups) : Groups[j].label_choices # <<>>

\* C8 amended: when floor(total/steps) = 0 there is exactly one group and it
\* holds every label in order; it is empty only when there is no label at all.
C8_SingleGroupOfAllLabels ==
    (gpc = "done" /\ PerStep = 0) =>
        /\ Len(Groups) = 1
        /\ Groups[1].label_choices = sub_reddits
        /\ \A j \in 1..Len(Groups) :
             Groups[j].label_choices = <<>> => sub_reddits = <<>>

\* 2 labels and 5 steps gave one group with both labels
C8_Witness ==
    /\ gpc = "done"
    /\ Len(sub_reddits) = 2
    /\ num_steps = 5
    /\ Len(Groups) = 1
    /\ Groups[1].label_choices = <<1, 2>>

\* ------------------------------------------------------------------ ScraperProvider
REDDIT_LITE == "Reddit.lite"
X_FLASH == "X.flash"
REDDIT_CUSTOM == "Reddit.custom"
X_MICROWORLDS == "X.microworlds"
ScraperIds == {REDDIT_LITE, X_FLASH, REDDIT_CUSTOM, X_MICROWORLDS}

\* lines 9-15
DEFAULT_FACTORIES ==
    [id \in ScraperIds |->
        CASE id = REDDIT_LITE -> "RedditLiteScraper"
          [] id = X_FLASH -> "MicroworldsTwitterScraper"
          [] id = REDDIT_CUSTOM -> "RedditCustomScraper"
          [] id = X_MICROWORLDS -> "MicroworldsTwitterScraper"]

\* the four fields get reads from reddit_config (lines 35-38)
CredKeys == {"client_id", "client_secret", "username", "password"}

\* bool(reddit_config): None and the empty dict are falsy
Truthy(rc) == rc # None /\ DOMAIN The(rc) # {}

\* a mutant of get: the credentials are passed to whichever factory is asked for
GetScraperCredentialsToAll(f, rc, id) ==
    IF id \notin DOMAIN f
    THEN [scraper_id |-> id, error |-> "AssertionError", scraper |-> None]
    ELSE IF Truthy(rc)
    THEN IF CredKeys \subseteq DOMAIN The(rc)
         THEN [scraper_id |-> id, error |-> "",
               scraper |-> Some([factory |-> f[id],
                                 kwargs |-> [k \in CredKeys |-> The(rc)[k]]])]
         ELSE [scraper_id |-> id, error |-> "KeyError", scraper |-> None]
    ELSE [scraper_id |-> id, error |-> "",
          scraper |-> Some([factory |-> f[id], kwargs |-> <<>>])]

\* ScraperProvider.get (lines 29-40): the error raised, if any, and the scraper
\* returned: the factory that built it and the keyword arguments it was given
GetScraper(f, rc, id) ==
    IF id \notin DOMAIN f
    THEN [scraper_id |-> id, error |-> "AssertionError", scraper |-> None]
    ELSE IF id = REDDIT_CUSTOM /\ Truthy(rc)
    THEN IF CredKeys \subseteq DOMAIN The(rc)
         THEN [scraper_id |-> id, error |-> "",
               scraper |-> Some([factory |-> f[id],
                                 kwargs |-> [k \in CredKeys |-> The(rc)[k]]])]
         ELSE [scraper_id |-> id, error |-> "KeyError", scraper |-> None]
    ELSE [scraper_id |-> id, error |-> "",
          scraper |-> Some([factory |-> f[id], kwargs |-> <<>>])]

\* one call of get
Get ==
    /\ calls < MaxCalls
    /\ \E id \in ScraperIds : got' = Some(GetScraper(factories, reddit_config, id))
    /\ calls' = calls + 1
    /\ UNCHANGED <<factories, reddit_config>>
    /\ UNCHANGED <<validateVars, configVars, mainVars>>

\* the factories a provider is constructed with: the default ones, restricted
\* to any set of ids, and a custom table
FactoryTables ==
    { [id \in S |-> DEFAULT_FACTORIES[id]] : S \in SUBSET ScraperIds }
    \cup { [id \in {REDDIT_LITE, REDDIT_CUSTOM} |-> "CustomScraper"] }

\* the reddit_config a provider is constructed with: None, or a dict with any
\* of the credential fields and possibly another key
ConfigDicts ==
    { [k \in K |-> k \o "-of-key-0"] : K \in SUBSET (CredKeys \cup {"user_agent"}) }
RedditConfigs == {None} \cup { Some(d) : d \in ConfigDicts }

\* ScraperProvider.__init__ (lines 21-27)
InitProvider ==
    /\ factories \in FactoryTables
    /\ reddit_config \in RedditConfigs
    /\ calls = 0
    /\ got = None
    /\ IdleValidate
    /\ IdleConfig
    /\ IdleMain

SpecProvider == InitProvider /\ [][Get]_vars

GotError == The(got).error # ""
BuiltBy(id) ==
    /\ ~GotError
    /\ The(got).scraper # None
    /\ The(The(got).scraper).factory = factories[id]
    /\ IF DOMAIN The(The(got).scraper).kwargs # {}
       THEN /\ id = REDDIT_CUSTOM
            /\ reddit_config # None
            /\ \A k \in CredKeys :
                 /\ k \in DOMAIN The(reddit_config)
                 /\ The(The(got).scraper).kwargs[k] = The(reddit_config)[k]
            /\ DOMAIN The(The(got).scraper).kwargs = CredKeys
       ELSE TRUE
    /\ id # REDDIT_CUSTOM => DOMAIN The(The(got).scraper).kwargs = {}
Fails == GotError /\ The(got).scraper = None

\* a non-empty reddit_config that lacks one of the four fields get reads
LacksField == Truthy(reddit_config) /\ ~(CredKeys \subseteq DOMAIN The(reddit_config))

\* C9 as stated: get fails for every id that is not registered, and for every
\* registered id returns a scraper built by the factory registered under that
\* id, the credentials passed only to REDDIT_CUSTOM, no argument to the others.
C9_GetReturnsForEveryRegisteredId ==
    got # None =>
        LET id == The(got).scraper_id
        IN IF id \in DOMAIN factories THEN BuiltBy(id) ELSE Fails

\* C9 amended: as stated, except that get also fails for REDDIT_CUSTOM when the
\* credentials are a non-empty mapping that lacks one of client_id,
\* client_secret, username, password.
C9_GetReturnsUnlessCredentialsLackAField ==
    got # None =>
        LET id == The(got).scraper_id
        IN IF id \in DOMAIN factories /\ ~(id = REDDIT_CUSTOM /\ LacksField)
           THEN BuiltBy(id)
           ELSE Fails

\* REDDIT_CUSTOM was resolved with full credentials bound into it
C9_Witness ==
    /\ got # None
    /\ The(got).scraper_id = REDDIT_CUSTOM
    /\ The(got).scraper # None
    /\ DOMAIN The(The(got).scraper).kwargs = CredKeys

\* ------------------------------------------------------------------ __main__ of custom_crawler.py
\* random.randint(5, 15), random.randint(30, 120), random.randint(100, 1000):
\* the ends of each range, and the middle of the first
NumStepsChoices == {5, 10, 15}
CadenceChoices == {30, 120}
MaxEntitiesChoices == {100, 1000}

\* line 65
REDDITS_PER_KEY == Len(SUB_REDDITS) \div Len(KEYS)

\* lines 78-85: a coordinator running in its background thread, with the
\* credentials of its provider and the scraping config it was given
Coordinator(key, cfg) == [reddit_config |-> key, config |-> cfg]

\* the value range(len(KEYS)) gives the loop variable next
NextIndex == IF key_i = None THEN 0 ELSE The(key_i) + 1

\* line 65 with an empty KEYS: ZeroDivisionError
MainNoKeys ==
    /\ mpc = "start"
    /\ Len(KEYS) = 0
    /\ mpc' = "raised"
    /\ UNCHANGED <<KEYS, SUB_REDDITS, key_i, coordinators>>
    /\ UNCHANGED <<validateVars, configVars, providerVars>>

\* lines 65-67: REDDITS_PER_KEY > 0, the for loop is entered
MainEnterFor ==
    /\ mpc = "start"
    /\ Len(KEYS) > 0
    /\ REDDITS_PER_KEY > 0
    /\ mpc' = "for"
    /\ UNCHANGED <<KEYS, SUB_REDDITS, key_i, coordinators>>
    /\ UNCHANGED <<validateVars, configVars, providerVars>>

\* lines 67-86: one iteration of the for loop
MainStartForKey ==
    /\ mpc = "for"
    /\ NextIndex < Len(KEYS)
    /\ key_i' = Some(NextIndex)
    /\ \E ns \in NumStepsChoices, cs \in CadenceChoices, me \in MaxEntitiesChoices :
         coordinators' =
             Append(coordinators,
                    Coordinator(KEYS[NextIndex + 1],
                                generate_scraping_config(
                                    Slice(SUB_REDDITS, NextIndex, NextIndex + REDDITS_PER_KEY),
                                    cs, me, ns)))
    /\ UNCHANGED <<KEYS, SUB_REDDITS, mpc>>
    /\ UNCHANGED <<validateVars, configVars, providerVars>>

\* line 67: range(len(KEYS)) is exhausted; lines 105-108 keep the process alive
MainForDone ==
    /\ mpc = "for"
    /\ NextIndex >= Len(KEYS)
    /\ mpc' = "running"
    /\ UNCHANGED <<KEYS, SUB_REDDITS, key_i, coordinators>>
    /\ UNCHANGED <<validateVars, configVars, providerVars>>

\* lines 87-104: REDDITS_PER_KEY = 0; one coordinator with KEYS[0] and every
\* label is started, and line 104 then formats the name i, which was never
\* bound: NameError
MainStartSingle ==
    /\ mpc = "start"
    /\ Len(KEYS) > 0
    /\ REDDITS_PER_KEY = 0
    /\ \E ns \in NumStepsChoices, cs \in CadenceChoices, me \in MaxEntitiesChoices :
         coordinators' =
             Append(coordinators,
                    Coordinator(KEYS[1], generate_scraping_config(SUB_REDDITS, cs, me, ns)))
    /\ mpc' = IF key_i = None THEN "raised" ELSE "running"
    /\ UNCHANGED <<KEYS, SUB_REDDITS, key_i>>
    /\ UNCHANGED <<validateVars, configVars, providerVars>>

NextMain ==
    \/ MainNoKeys
    \/ MainEnterFor
    \/ MainStartForKey
    \/ MainForDone
    \/ MainStartSingle

\* lines 62-64: the keys and the labels loaded; keys and labels are named 1..n
InitMain ==
    /\ KEYS \in { [i \in 1..n |-> i] : n \in 0..MaxKeys }
    /\ SUB_REDDITS \in { [i \in 1..n |-> i] : n \in 0..MaxSubReddits }
    /\ mpc = "start"
    /\ key_i = None
    /\ coordinators = <<>>
    /\ IdleValidate
    /\ IdleConfig
    /\ IdleProvider

SpecMain == InitMain /\ [][NextMain]_vars

\* the labels handed to a coordinator: those of all its label groups
LabelsOf(c) ==
    UNION { LabelSet(c.config.scraper_configs[1].labels_to_scrape[g]) :
              g \in 1..Len(c.config.scraper_configs[1].labels_to_scrape) }

\* C11: with at least as many labels as keys, once the bootstrap has started
\* its loops there is exactly one per key, loop j with key j's credentials,
\* and at no time do two started loops share a label.
C11_OneLoopPerKeyDisjointLabels ==
    (Len(KEYS) >= 1 /\ Len(SUB_REDDITS) >= Len(KEYS)) =>
        /\ mpc # "raised"
        /\ mpc = "running" =>
             /\ Len(coordinators) = Len(KEYS)
             /\ \A j \in 1..Len(KEYS) : coordinators[j].reddit_config = KEYS[j]
        /\ \A i, j \in 1..Len(coordinators) :
             i # j => LabelsOf(coordinators[i]) \cap LabelsOf(coordinators[j]) = {}

====
